---- MODULE Spec2Model ----
(***************************************************************************)
(* FuturesAPIDecorator (src/futures_decorator.py): an instrumentation      *)
(* layer around a trading API object.  Trading methods are wrapped so      *)
(* that each call is logged and notified; every other public callable is   *)
(* re-exported as it is.                                                   *)
(*                                                                         *)
(* One behaviour of the model is one call made through a constructed       *)
(* decorator: Init is the state after __init__ together with the call the  *)
(* caller is about to make, the actions are the steps of the call.         *)
(* Python values are modelled as strings, tuples as sequences (Python      *)
(* index i is TLA+ index i + 1) and dicts as functions on sets of strings. *)
(***************************************************************************)
EXTENDS Integers, Sequences, FiniteSets, TLC

VARIABLES
    surface,    \* dir(api): attribute name -> "method" | "data"
    tgbot,      \* self.tgbot is set (a Notification Sink is configured)
    exposed,    \* attributes set on the decorator: name -> "wrapper" | "direct"
    name,       \* the attribute the caller invokes
    args,       \* positional arguments of the call
    kwargs,     \* keyword arguments of the call
    pc,         \* position of the call
    details,    \* wrapper's local `details`
    prev,       \* result of the previous extraction on the same arguments
    received,   \* what the underlying method was invoked with, one entry per invocation
    outcome,    \* what the underlying method did
    pending,    \* the exception the wrapper's except clause is handling
    trace,      \* the writes on the Log Sink and the sends on the Notification Sink, in order
    visible     \* what the caller of the decorator observes

vars == <<surface, tgbot, exposed, name, args, kwargs, pc, details, prev,
          received, outcome, pending, trace, visible>>

---------------------------------------------------------------------------
(* Bounds *)

\* longest positional tuple in the extractor specification
MaxArgs == 7
\* longest positional tuple in the call specifications
MaxCallArgs == 2
\* largest number of keyword arguments in one call
MaxKw == 1
\* largest number of attributes by which a capability differs from the usual one
MaxDeviations == 1
\* largest number of keyword arguments in a call of the parameter specification
MaxNamed == 3

---------------------------------------------------------------------------
(* Class tables *)

TRADING_METHODS ==
    {"set_stop_loss_take_profit", "place_market_order", "place_limit_order",
     "close_position", "cancel_order"}

INFO_METHODS ==
    {"get_positions", "get_open_orders", "fetch_usdt_balance", "get_price",
     "get_historical_data"}

---------------------------------------------------------------------------
(* Python dicts, tuples and the errors of indexing them *)

EmptyDict == [k \in {} |-> ""]

\* the value an unguarded args[i] / kwargs[k] would raise instead of yielding
PyIndexError == "<IndexError>"
PyKeyError == "<KeyError>"

\* args[i]
At(a, i) == IF i < Len(a) THEN a[i + 1] ELSE PyIndexError

\* kwargs[k]
Item(d, k) == IF k \in DOMAIN d THEN d[k] ELSE PyKeyError

\* kwargs.get(k, default)
Get(d, k, default) == IF k \in DOMAIN d THEN d[k] ELSE default

\* d[k] = v
Put(d, k, v) == [x \in (DOMAIN d) \cup {k} |-> IF x = k THEN v ELSE d[x]]

\* d.update(e)
Update(d, e) ==
    [x \in (DOMAIN d) \cup (DOMAIN e) |-> IF x \in DOMAIN e THEN e[x] ELSE d[x]]

\* {k: v for k, v in d.items() if k in keys}
Only(d, keys) == [x \in (DOMAIN d) \cap keys |-> d[x]]

\* if cond: d[k] = v
PutIf(cond, d, k, v) == IF cond THEN Put(d, k, v) ELSE d

---------------------------------------------------------------------------
(* _extract_details *)

\* the symbol, lines 160-164: positional first, the keyword only without it
ExtractSymbol(d, a, kw) ==
    IF Len(a) > 1 THEN Put(d, "symbol", At(a, 1))
    ELSE IF "symbol" \in DOMAIN kw THEN Put(d, "symbol", Item(kw, "symbol"))
    ELSE d

\* the keys the set_stop_loss_take_profit branch copies from kwargs, line 178
SltpKwKeys == {"side", "quantity", "stop_loss_price", "take_profit_price"}

\* branch method_name == "set_stop_loss_take_profit", lines 167-178
ExtractSltp(d, a, kw) ==
    LET d1 == PutIf(Len(a) > 2, d, "side", At(a, 2))
        d2 == PutIf(Len(a) > 3, d1, "quantity", At(a, 3))
        d3 == PutIf(Len(a) > 4, d2, "stop_loss", At(a, 4))
        d4 == PutIf(Len(a) > 5, d3, "take_profit", At(a, 5))
    IN  Update(d4, Only(kw, SltpKwKeys))

\* the keys the place_*_order branch copies from kwargs, lines 198-199
OrderKwKeys ==
    {"position_type", "price", "leverage", "amount", "stop_loss_price",
     "take_profit_price"}

\* branch method_name in ["place_market_order", "place_limit_order"], lines 180-199
ExtractOrder(m, d, a, kw) ==
    LET limit == (m = "place_limit_order")
        li == IF limit THEN 4 ELSE 3
        ai == IF limit THEN 5 ELSE 4
        d1 == PutIf(Len(a) > 2, d, "position", At(a, 2))
        d2 == PutIf(limit /\ Len(a) > 3, d1, "price", At(a, 3))
        d3 == PutIf(Len(a) > li, d2, "leverage", At(a, li))
        d4 == PutIf(Len(a) > ai, d3, "amount", At(a, ai))
        d5 == PutIf(m = "place_market_order" /\ Len(a) > 5, d4, "stop_loss", At(a, 5))
        d6 == PutIf(m = "place_market_order" /\ Len(a) > 6, d5, "take_profit", At(a, 6))
    IN  Update(d6, Only(kw, OrderKwKeys))

\* branch method_name == "close_position", lines 201-205
ExtractClose(d, a, kw) ==
    LET d1 == PutIf(Len(a) > 2, d, "position", At(a, 2))
    IN  PutIf("position_type" \in DOMAIN kw, d1, "position", Item(kw, "position_type"))

\* ExtractCancel with the guard of the symbol (len(args) > 1) on args[2]
ExtractCancel_GuardOfSymbol(d, a, kw) ==
    LET d1 == PutIf(Len(a) > 1, d, "type", At(a, 2))
    IN  PutIf("type" \in DOMAIN kw, d1, "type", Item(kw, "type"))

\* branch method_name == "cancel_order", lines 207-211
ExtractCancel(d, a, kw) ==
    LET d1 == PutIf(Len(a) > 2, d, "type", At(a, 2))
    IN  PutIf("type" \in DOMAIN kw, d1, "type", Item(kw, "type"))

ExtractDetails(m, a, kw) ==
    LET d == ExtractSymbol(EmptyDict, a, kw)
    IN  IF m = "set_stop_loss_take_profit" THEN ExtractSltp(d, a, kw)
        ELSE IF m \in {"place_market_order", "place_limit_order"}
             THEN ExtractOrder(m, d, a, kw)
        ELSE IF m = "close_position" THEN ExtractClose(d, a, kw)
        ELSE IF m = "cancel_order" THEN ExtractCancel(d, a, kw)
        ELSE d

---------------------------------------------------------------------------
(* _get_success_message, _get_error_message *)

\* args[i] if len(args) > i else kwargs.get(k, default)
ArgOrKw(a, i, kw, k, default) == IF Len(a) > i THEN At(a, i) ELSE Get(kw, k, default)

\* Python truth of a value of the model: the empty string is false
Truthy(v) == v # ""

\* f" {order_type}" if order_type else ""
TypeStr(a, kw) ==
    LET order_type == ArgOrKw(a, 2, kw, "type", "")
    IN  IF Truthy(order_type) THEN " " \o order_type ELSE ""

GetSuccessMessage(m, a, kw) ==
    LET symbol == ArgOrKw(a, 1, kw, "symbol", "unknown")
        side == ArgOrKw(a, 2, kw, "side", "unknown")
        position_type == ArgOrKw(a, 2, kw, "position_type", "unknown")
        price == ArgOrKw(a, 3, kw, "price", "unknown")
    IN  IF m = "set_stop_loss_take_profit"
        THEN "Set SL/TP for " \o symbol \o " (" \o side \o ")"
        ELSE IF m = "place_market_order"
        THEN "Placed market " \o position_type \o " order for " \o symbol
        ELSE IF m = "place_limit_order"
        THEN "Placed limit " \o position_type \o " order for " \o symbol \o " at " \o price
        ELSE IF m = "close_position"
        THEN "Closed " \o position_type \o " position for " \o symbol
        ELSE IF m = "cancel_order"
        THEN "Cancelled" \o TypeStr(a, kw) \o " orders for " \o symbol
        ELSE "Executed " \o m \o " for " \o symbol

GetErrorMessage(m, a, kw) ==
    LET symbol == ArgOrKw(a, 1, kw, "symbol", "unknown")
        side == ArgOrKw(a, 2, kw, "side", "unknown")
        position_type == ArgOrKw(a, 2, kw, "position_type", "unknown")
    IN  IF m = "set_stop_loss_take_profit"
        THEN "Failed to set SL/TP for " \o symbol \o " (" \o side \o ")"
        ELSE IF m = "place_market_order"
        THEN "Failed to place market " \o position_type \o " order for " \o symbol
        ELSE IF m = "place_limit_order"
        THEN "Failed to place limit " \o position_type \o " order for " \o symbol
        ELSE IF m = "close_position"
        THEN "Failed to close " \o position_type \o " position for " \o symbol
        ELSE IF m = "cancel_order"
        THEN "Failed to cancel" \o TypeStr(a, kw) \o " orders for " \o symbol
        ELSE "Failed to execute " \o m \o " for " \o symbol

---------------------------------------------------------------------------
(* Exceptions.  isException: the class derives from Exception, so that     *)
(* `except Exception` catches it (KeyboardInterrupt, SystemExit and        *)
(* asyncio.CancelledError do not).  truthy: bool(e), which is True unless  *)
(* the class defines __bool__ or __len__.                                  *)

Exc(t, m, isExc, tr) == [type |-> t, msg |-> m, isException |-> isExc, truthy |-> tr]

\* None, where an exception could be
NoExc == Exc("", "", FALSE, FALSE)

\* what the underlying method may raise
ApiErrors ==
    {Exc("RuntimeError", "timeout", TRUE, TRUE),
     Exc("KeyboardInterrupt", "", FALSE, TRUE),
     Exc("RejectedOrders", "rejected", TRUE, FALSE)}

\* what it may return
ApiResults == {"order-1"}

\* json.dumps on a value it has no encoding for
JsonTypeError == Exc("TypeError", "Object is not JSON serializable", TRUE, TRUE)

\* a Log Sink whose write fails
LogSinkError == Exc("OSError", "log write failed", TRUE, TRUE)

\* a Notification Sink whose send fails: with an Exception, or with one that is not
TgError(how) ==
    IF how = "exc" THEN Exc("NetworkError", "send failed", TRUE, TRUE)
    ELSE Exc("CancelledError", "", FALSE, TRUE)

TgModes == {"ok", "exc", "base"}

\* values json.dumps cannot encode (a Decimal amount, a datetime)
Unserialisable == {"Decimal('0.5')"}

---------------------------------------------------------------------------
(* _log_and_notify *)

\* one operation on a sink: a write on the Log Sink ("log") or a send on the
\* Notification Sink ("tg"); kind tells which line made it: the report of a
\* success or of a failure, or the entry about a failed notification;
\* raised is what the sink raised (NoExc: it took the message)
Event(sink, kind, sev, text, d, err, raised) ==
    [sink |-> sink, kind |-> kind, sev |-> sev, text |-> text, details |-> d,
     error |-> err, raised |-> raised]

\* json.dumps(details) raises
JsonRaises(d) == \E k \in DOMAIN d : d[k] \in Unserialisable

\* `if error:`
ErrorIsTrue(error) == error.truthy

\* lines 85-90: the notification, after the report was written.
\* tgo: what send_message does; w2: write_error_log of line 90 raises
Notify(kind, text, d, err, tgo, w2) ==
    LET sent == Event("tg", kind, "", text, d, err,
                      IF tgo = "ok" THEN NoExc ELSE TgError(tgo))
        entry == Event("log", "notify_failure", "error",
                       "Failed to send Telegram notification: " \o TgError(tgo).msg,
                       EmptyDict, <<>>, IF w2 THEN LogSinkError ELSE NoExc)
    IN  IF ~tgbot THEN [events |-> <<>>, raised |-> NoExc]
        ELSE IF tgo = "ok" THEN [events |-> <<sent>>, raised |-> NoExc]
        ELSE IF ~TgError(tgo).isException
             THEN [events |-> <<sent>>, raised |-> TgError(tgo)]
        ELSE [events |-> <<sent, entry>>, raised |-> entry.raised]

\* LogAndNotify with the notification sent before the report is written
LogAndNotify_NotifyFirst(action, success, d, error, w1, tgo, w2) ==
    LET kind == IF success THEN "success" ELSE "failure"
        text == (IF success THEN "SUCCESS" ELSE "ERROR") \o ": " \o action
        err == IF ErrorIsTrue(error) THEN <<error.msg>> ELSE <<>>
        sev == IF ErrorIsTrue(error) THEN "error" ELSE "info"
        report == Event("log", kind, sev, text, d, err,
                        IF w1 THEN LogSinkError ELSE NoExc)
        n == Notify(kind, text, d, err, tgo, w2)
    IN  IF d # EmptyDict /\ JsonRaises(d) THEN [events |-> <<>>, raised |-> JsonTypeError]
        ELSE IF n.raised # NoExc THEN [events |-> n.events, raised |-> n.raised]
        ELSE [events |-> n.events \o <<report>>,
              raised |-> IF w1 THEN LogSinkError ELSE NoExc]

\* lines 72-90.  w1: the write of the report (line 81 or 83) raises
LogAndNotify(action, success, d, error, w1, tgo, w2) ==
    LET kind == IF success THEN "success" ELSE "failure"
        text == (IF success THEN "SUCCESS" ELSE "ERROR") \o ": " \o action
        err == IF ErrorIsTrue(error) THEN <<error.msg>> ELSE <<>>
        sev == IF ErrorIsTrue(error) THEN "error" ELSE "info"
        report == Event("log", kind, sev, text, d, err,
                        IF w1 THEN LogSinkError ELSE NoExc)
        n == Notify(kind, text, d, err, tgo, w2)
    IN  IF d # EmptyDict /\ JsonRaises(d) THEN [events |-> <<>>, raised |-> JsonTypeError]
        ELSE IF w1 THEN [events |-> <<report>>, raised |-> LogSinkError]
        ELSE [events |-> <<report>> \o n.events, raised |-> n.raised]

---------------------------------------------------------------------------
(* _decorate_methods *)

\* the attributes a capability may have
AttrUniverse ==
    TRADING_METHODS \cup INFO_METHODS \cup {"get_funding_rate", "_sign_request", "base_url"}

\* method_name.startswith('_')
StartsWithUnderscore(n) == n \in {"_sign_request"}

\* MethodKind with the info methods decorated like the trading methods
MethodKind_InfoDecorated(n) ==
    IF n \in TRADING_METHODS \cup INFO_METHODS THEN "wrapper" ELSE "direct"

\* MethodKind with the methods of neither table decorated
MethodKind_OthersDecorated(n) ==
    IF n \in TRADING_METHODS THEN "wrapper"
    ELSE IF n \in INFO_METHODS THEN "direct"
    ELSE "wrapper"

\* lines 108-116: what is set on the decorator for a public callable
MethodKind(n) ==
    IF n \in TRADING_METHODS THEN "wrapper"
    ELSE IF n \in INFO_METHODS THEN "direct"
    ELSE "direct"

\* lines 98-116
DecorateMethods(surf) ==
    [n \in {x \in DOMAIN surf : ~StartsWithUnderscore(x) /\ surf[x] = "method"}
        |-> MethodKind(n)]

---------------------------------------------------------------------------
(* The calls of the model *)

\* tuples of at most n values
ArgTuples(vals, n) == UNION {[1..k -> vals] : k \in 0..n}

\* dicts of at most n keys
KwDicts(keys, vals, n) ==
    UNION {[S -> vals] : S \in {T \in SUBSET keys : Cardinality(T) <= n}}

\* every keyword the extractor and the formatter look for, and one they ignore
KwKeys == SltpKwKeys \cup OrderKwKeys \cup {"symbol", "type", "time_in_force"}

\* argument values of the extractor specification
ExtValues == {"BTCUSDT", "100"}
ExtKwValues == {"90"}

\* argument values and keywords of the call specifications
CallValues == {"BTCUSDT"} \cup Unserialisable
CallKwKeys == {"symbol", "position_type", "type", "amount"}

\* the capability with every known method, one unknown method, one private
\* method and one data attribute
UsualSurface == [n \in AttrUniverse |-> IF n = "base_url" THEN "data" ELSE "method"]

\* the usual capability with the attributes of D removed (rm) or turned from
\* method to data and back
Deviate(D, rm) ==
    [n \in AttrUniverse \ rm |->
        IF n \in D THEN (IF UsualSurface[n] = "method" THEN "data" ELSE "method")
        ELSE UsualSurface[n]]

Surfaces ==
    UNION {{Deviate(D \ rm, rm) : rm \in SUBSET D} :
              D \in {T \in SUBSET AttrUniverse : Cardinality(T) <= MaxDeviations}}

Returns(v) == [kind |-> "return", val |-> v, err |-> NoExc]
Raises(e) == [kind |-> "raise", val |-> "", err |-> e]
NoOutcome == [kind |-> "none", val |-> "", err |-> NoExc]

ApiOutcomes == {Returns(v) : v \in ApiResults} \cup {Raises(e) : e \in ApiErrors}

\* the state after __init__(api, logger, tgbot), lines 43-60, and the call at hand
Constructed(surf, tg, m, a, kw, at) ==
    /\ surface = surf
    /\ tgbot = tg
    /\ exposed = DecorateMethods(surf)
    /\ name = m
    /\ args = a
    /\ kwargs = kw
    /\ pc = at
    /\ details = EmptyDict
    /\ prev = <<>>
    /\ received = <<>>
    /\ outcome = NoOutcome
    /\ pending = NoExc
    /\ trace = <<>>
    /\ visible = NoOutcome

Init ==
    \E tg \in BOOLEAN, m \in DOMAIN DecorateMethods(UsualSurface),
       a \in ArgTuples(CallValues, MaxCallArgs),
       kw \in KwDicts(CallKwKeys, CallValues, MaxKw) :
        Constructed(UsualSurface, tg, m, a, kw, "ready")

InitWrap ==
    \E surf \in Surfaces, tg \in BOOLEAN :
        \E m \in DOMAIN DecorateMethods(surf) :
            Constructed(surf, tg, m, <<>>, EmptyDict, "ready")

InitExtract ==
    \E m \in TRADING_METHODS, a \in ArgTuples(ExtValues, MaxArgs),
       kw \in KwDicts(KwKeys, ExtKwValues, MaxKw) :
        Constructed(UsualSurface, FALSE, m, a, kw, "Entered")

---------------------------------------------------------------------------
(* Calls that pass the parameters of the wrapped methods *)

\* the parameters of the trading methods after self, in order, as the index
\* table and the keyword names of _extract_details give them
Params(m) ==
    IF m = "set_stop_loss_take_profit"
    THEN <<"symbol", "side", "quantity", "stop_loss_price", "take_profit_price">>
    ELSE IF m = "place_market_order"
    THEN <<"symbol", "position_type", "leverage", "amount", "stop_loss_price",
           "take_profit_price">>
    ELSE IF m = "place_limit_order"
    THEN <<"symbol", "position_type", "price", "leverage", "amount">>
    ELSE IF m = "close_position" THEN <<"symbol", "position_type">>
    ELSE <<"symbol", "type">>

\* the values a caller passes for a parameter
ParamValues(p) ==
    IF p = "symbol" THEN {"BTCUSDT", "ETHUSDT"}
    ELSE IF p \in {"side", "position_type"} THEN {"long", "short"}
    ELSE IF p = "price" THEN {"65000", "64000"}
    ELSE IF p = "type" THEN {"limit", "stop"}
    ELSE {"1"}

\* the first n parameters of m passed by position
RECURSIVE Positionals(_, _)
Positionals(m, n) ==
    IF n = 0 THEN {<<>>}
    ELSE {Append(a, v) : a \in Positionals(m, n - 1), v \in ParamValues(Params(m)[n])}

\* the parameters of K passed by keyword
Named(K) ==
    {kw \in [K -> UNION {ParamValues(p) : p \in K}] : \A p \in K : kw[p] \in ParamValues(p)}

\* method(*args, **kwargs) on the bound method of line 104: the value each
\* parameter of m receives; self is bound already, so args[0] is the first
\* parameter.  A parameter passed neither way is left to its default.
Bind(m, a, kw) ==
    LET ps == Params(m)
        byPos == {ps[i] : i \in 1..(IF Len(a) < Len(ps) THEN Len(a) ELSE Len(ps))}
        index(p) == CHOOSE i \in 1..Len(ps) : ps[i] = p
    IN  [p \in byPos \cup (DOMAIN kw \cap {ps[i] : i \in 1..Len(ps)}) |->
            IF p \in byPos THEN a[index(p)] ELSE kw[p]]

\* Python accepts the call: no parameter is passed twice
WellFormed(m, a, kw) ==
    /\ Len(a) <= Len(Params(m))
    /\ \A i \in 1..Len(a) : Params(m)[i] \notin DOMAIN kw
    /\ DOMAIN kw \subseteq {Params(m)[i] : i \in 1..Len(Params(m))}

InitParams ==
    \E tg \in BOOLEAN, m \in TRADING_METHODS :
        \E n \in 0..Len(Params(m)) :
            \E a \in Positionals(m, n),
               K \in {T \in SUBSET {Params(m)[i] : i \in 1..Len(Params(m))} :
                          Cardinality(T) <= MaxNamed} :
                \E kw \in Named(K) :
                    Constructed(UsualSurface, tg, m, a, kw, "ready")

---------------------------------------------------------------------------
(* A call through the decorator *)

\* the attribute is the bound method of the api itself, lines 113 and 116
CallPassthrough ==
    /\ pc = "ready"
    /\ exposed[name] = "direct"
    /\ \E o \in ApiOutcomes :
        /\ received' = Append(received, [args |-> args, kwargs |-> kwargs])
        /\ outcome' = o
        /\ visible' = o
        /\ pc' = IF o.kind = "return" THEN "Returned" ELSE "Raised"
    /\ UNCHANGED <<surface, tgbot, exposed, name, args, kwargs, details, prev, pending, trace>>

\* the attribute is the wrapper of line 130
Enter ==
    /\ pc = "ready"
    /\ exposed[name] = "wrapper"
    /\ pc' = "Entered"
    /\ UNCHANGED <<surface, tgbot, exposed, name, args, kwargs, details, prev,
                   received, outcome, pending, trace, visible>>

\* line 132
Extract ==
    /\ pc = "Entered"
    /\ details' = ExtractDetails(name, args, kwargs)
    /\ pc' = "Extracted"
    /\ UNCHANGED <<surface, tgbot, exposed, name, args, kwargs, prev,
                   received, outcome, pending, trace, visible>>

\* the extractor called once more with the same arguments
ExtractAgain ==
    /\ pc = "Extracted"
    /\ prev' = <<details>>
    /\ details' = ExtractDetails(name, args, kwargs)
    /\ pc' = "ExtractedTwice"
    /\ UNCHANGED <<surface, tgbot, exposed, name, args, kwargs,
                   received, outcome, pending, trace, visible>>

\* line 135: an Exception enters the except clause of line 139, any other
\* exception leaves the wrapper
Invoke ==
    /\ pc = "Extracted"
    /\ \E o \in ApiOutcomes :
        /\ received' = Append(received, [args |-> args, kwargs |-> kwargs])
        /\ outcome' = o
        /\ IF o.kind = "return"
           THEN pc' = "Invoked" /\ UNCHANGED <<pending, visible>>
           ELSE IF o.err.isException
           THEN pc' = "Caught" /\ pending' = o.err /\ UNCHANGED visible
           ELSE pc' = "Raised" /\ visible' = o /\ UNCHANGED pending
    /\ UNCHANGED <<surface, tgbot, exposed, name, args, kwargs, details, prev, trace>>

\* lines 136-137, inside the try
ReportSuccess ==
    /\ pc = "Invoked"
    /\ \E w1 \in BOOLEAN, tgo \in TgModes, w2 \in BOOLEAN :
        LET r == LogAndNotify(GetSuccessMessage(name, args, kwargs), TRUE, details,
                              NoExc, w1, tgo, w2)
        IN  /\ trace' = trace \o r.events
            /\ IF r.raised = NoExc
               THEN pc' = "ReportedSuccess" /\ UNCHANGED <<pending, visible>>
               ELSE IF r.raised.isException
               THEN pc' = "Caught" /\ pending' = r.raised /\ UNCHANGED visible
               ELSE pc' = "Raised" /\ visible' = Raises(r.raised) /\ UNCHANGED pending
    /\ UNCHANGED <<surface, tgbot, exposed, name, args, kwargs, details, prev,
                   received, outcome>>

\* lines 140-141, in the except clause
ReportFailure ==
    /\ pc = "Caught"
    /\ \E w1 \in BOOLEAN, tgo \in TgModes, w2 \in BOOLEAN :
        LET r == LogAndNotify(GetErrorMessage(name, args, kwargs), FALSE, details,
                              pending, w1, tgo, w2)
        IN  /\ trace' = trace \o r.events
            /\ IF r.raised = NoExc
               THEN pc' = "ReportedFailure" /\ UNCHANGED visible
               ELSE pc' = "Raised" /\ visible' = Raises(r.raised)
    /\ UNCHANGED <<surface, tgbot, exposed, name, args, kwargs, details, prev,
                   received, outcome, pending>>

\* line 138
Return ==
    /\ pc = "ReportedSuccess"
    /\ visible' = outcome
    /\ pc' = "Returned"
    /\ UNCHANGED <<surface, tgbot, exposed, name, args, kwargs, details, prev,
                   received, outcome, pending, trace>>

\* line 142
Reraise ==
    /\ pc = "ReportedFailure"
    /\ visible' = Raises(pending)
    /\ pc' = "Raised"
    /\ UNCHANGED <<surface, tgbot, exposed, name, args, kwargs, details, prev,
                   received, outcome, pending, trace>>

Next ==
    \/ CallPassthrough
    \/ Enter
    \/ Extract
    \/ Invoke
    \/ ReportSuccess
    \/ ReportFailure
    \/ Return
    \/ Reraise

NextExtract == Extract \/ ExtractAgain

\* the steps of the wrapper of lines 130-142
NextWrapper ==
    \/ Enter
    \/ Extract
    \/ Invoke
    \/ ReportSuccess
    \/ ReportFailure
    \/ Return
    \/ Reraise

\* one call through a decorator of the usual capability
Spec == Init /\ [][Next]_vars

\* one call through a decorator of any capability
SpecWrap == InitWrap /\ [][Next]_vars

\* the extractor alone, on longer argument lists
SpecExtract == InitExtract /\ [][NextExtract]_vars

\* one call that passes parameters of the wrapped method by position or by
\* keyword, some of them possibly both ways
SpecParams == InitParams /\ [][NextWrapper]_vars

---------------------------------------------------------------------------
(* What the claims speak of *)

\* the call is over: the caller has its value or its exception
Done == pc \in {"Returned", "Raised"}

Audited == name \in TRADING_METHODS

\* Log Sink entries of the given kind and severity that were written
Written(kind, sev) ==
    {i \in DOMAIN trace : /\ trace[i].sink = "log" /\ trace[i].kind = kind
                          /\ trace[i].sev = sev /\ trace[i].raised = NoExc}

\* reports of the call in the Log Sink, by severity
Reports(sev) == Written("success", sev) \cup Written("failure", sev)

\* sends attempted on the Notification Sink
Sends == {i \in DOMAIN trace : trace[i].sink = "tg"}

\* sends the Notification Sink failed with an Exception
FailedSends == {i \in Sends : trace[i].raised # NoExc}

\* writes the Log Sink failed
FailedWrites == {i \in DOMAIN trace : trace[i].sink = "log" /\ trace[i].raised # NoExc}

\* no sink raised anything but an Exception, and neither did the operation
OrdinaryErrors ==
    /\ \A i \in DOMAIN trace : trace[i].raised = NoExc \/ trace[i].raised.isException
    /\ outcome.kind = "raise" => outcome.err.isException /\ outcome.err.truthy

\* both sinks took every message
SinksWork == \A i \in DOMAIN trace : trace[i].raised = NoExc

Range(f) == {f[x] : x \in DOMAIN f}

---------------------------------------------------------------------------
(* C1: a call of an INFO_METHODS name through the decorator is the call of *)
(* the api's own method: the caller gets what the method returned or       *)
(* raised, the method got the caller's arguments, and nothing is written   *)
(* to the Log Sink or sent to the Notification Sink.                       *)
C1_PassthroughTransparent ==
    name \in INFO_METHODS =>
        /\ trace = <<>>
        /\ pc \in {"ready", "Returned", "Raised"}
        /\ Done => /\ visible = outcome
                   /\ outcome.kind # "none"
                   /\ received = <<[args |-> args, kwargs |-> kwargs]>>

\* an info method raised through the decorator
C1_Witness == name = "get_price" /\ pc = "Raised" /\ visible.kind = "raise"

---------------------------------------------------------------------------
(* C2: an audited call whose underlying call returned ends with exactly    *)
(* one info-severity report in the Log Sink, exactly one send on the       *)
(* Notification Sink if one is configured and none otherwise, and the      *)
(* result returned to the caller.  Stated here for sinks that take every   *)
(* message.                                                                *)
C2_SuccessReportedOnce ==
    (Audited /\ Done /\ outcome.kind = "return" /\ SinksWork) =>
        /\ Cardinality(Reports("info")) = 1
        /\ Cardinality(Sends) = (IF tgbot THEN 1 ELSE 0)
        /\ visible = outcome

---------------------------------------------------------------------------
(* C3: an audited call whose underlying call raised ends with exactly one  *)
(* error-severity report in the Log Sink, exactly one send on the          *)
(* Notification Sink if one is configured, and the same error raised to    *)
(* the caller.  Stated here for sinks that take every message and an       *)
(* ordinary error (an Exception whose truth value is True).                *)
C3_FailureReportedOnce ==
    (Audited /\ Done /\ outcome.kind = "raise" /\ SinksWork /\ OrdinaryErrors) =>
        /\ Cardinality(Reports("error")) = 1
        /\ Cardinality(Sends) = (IF tgbot THEN 1 ELSE 0)
        /\ visible = outcome

---------------------------------------------------------------------------
(* C4: when a send on the Notification Sink raised, the caller still gets  *)
(* what the underlying call returned or raised, and the Log Sink holds one *)
(* error-severity entry about each failed send.  Stated here for sends     *)
(* that fail with an Exception.                                            *)
C4_NotifyFailureSwallowed ==
    (Audited /\ Done /\ FailedSends # {} /\ OrdinaryErrors) =>
        /\ visible = outcome
        /\ Cardinality(Written("notify_failure", "error")) = Cardinality(FailedSends)

---------------------------------------------------------------------------
(* C5: when a write on the Log Sink raised, the caller still gets what the *)
(* underlying call returned or raised, and a call that returned is not     *)
(* reported as a failure.                                                  *)
C5_LogFailureContained ==
    (Audited /\ Done /\ FailedWrites # {}) =>
        /\ visible = outcome
        /\ outcome.kind = "return" =>
               \A i \in DOMAIN trace : trace[i].kind # "failure"

---------------------------------------------------------------------------
(* C6: after extraction, every field whose keyword the call passed holds   *)
(* the keyword's value, whatever the positional arguments were: symbol,    *)
(* side, quantity, price, leverage, amount and type under their own names, *)
(* stop_loss, take_profit and position under the keywords                  *)
(* stop_loss_price, take_profit_price and position_type.                   *)

\* the fields the extractor fills for an operation
FieldsOf(m) ==
    IF m = "set_stop_loss_take_profit"
    THEN {"symbol", "side", "quantity", "stop_loss", "take_profit"}
    ELSE IF m = "place_market_order"
    THEN {"symbol", "position", "leverage", "amount", "stop_loss", "take_profit"}
    ELSE IF m = "place_limit_order"
    THEN {"symbol", "position", "price", "leverage", "amount"}
    ELSE IF m = "close_position" THEN {"symbol", "position"}
    ELSE {"symbol", "type"}

\* the keyword a field is passed under
KeywordOf(f) ==
    IF f = "stop_loss" THEN "stop_loss_price"
    ELSE IF f = "take_profit" THEN "take_profit_price"
    ELSE IF f = "position" THEN "position_type"
    ELSE f

C6_KeywordOverridesPositional ==
    pc = "Extracted" =>
        \A f \in FieldsOf(name) :
            KeywordOf(f) \in DOMAIN kwargs =>
                f \in DOMAIN details /\ details[f] = kwargs[KeywordOf(f)]

---------------------------------------------------------------------------
(* C7: every key of the extracted mapping is one of symbol, side,          *)
(* quantity, stop_loss, take_profit, position, price, leverage, amount,    *)
(* type.                                                                   *)
CanonicalKeys ==
    {"symbol", "side", "quantity", "stop_loss", "take_profit", "position",
     "price", "leverage", "amount", "type"}

C7_KeysCanonical == DOMAIN details \subseteq CanonicalKeys

---------------------------------------------------------------------------
---------------------------------------------------------------------------
(* C9: if no sink raises, the caller of an audited call gets what the      *)
(* underlying call returned or raised, whatever values the extracted       *)
(* fields hold.                                                            *)
C9_ReportNeverFailsCaller ==
    (Audited /\ Done /\ SinksWork) => visible = outcome

---------------------------------------------------------------------------
(* C10: every public callable of the capability is set on the decorator,   *)
(* the five TRADING_METHODS names as wrappers and every other name as the  *)
(* api's own method; nothing else is set; and a call of a name that is not *)
(* a trading method reaches no sink and gives the caller what the method   *)
(* did.                                                                    *)
Operations == {n \in DOMAIN surface : surface[n] = "method" /\ ~StartsWithUnderscore(n)}

---------------------------------------------------------------------------
(* The values a call supplies, and the sentence made of them *)

\* the value the underlying method has for each field the call supplied
Supplied ==
    LET b == Bind(name, args, kwargs)
    IN  [f \in {x \in CanonicalKeys : KeywordOf(x) \in DOMAIN b} |-> b[KeywordOf(f)]]

\* the sentence of an operation for the field values f, a field f lacks
\* reading "unknown" and a lacking or empty type leaving its clause out
Sentence(m, success, f) ==
    LET symbol == Get(f, "symbol", "unknown")
        side == Get(f, "side", "unknown")
        position == Get(f, "position", "unknown")
        price == Get(f, "price", "unknown")
        type == IF Get(f, "type", "") # "" THEN " " \o f["type"] ELSE ""
    IN  IF m = "set_stop_loss_take_profit"
        THEN (IF success THEN "Set SL/TP for " ELSE "Failed to set SL/TP for ")
                 \o symbol \o " (" \o side \o ")"
        ELSE IF m = "place_market_order"
        THEN (IF success THEN "Placed market " ELSE "Failed to place market ")
                 \o position \o " order for " \o symbol
        ELSE IF m = "place_limit_order"
        THEN IF success
             THEN "Placed limit " \o position \o " order for " \o symbol \o " at " \o price
             ELSE "Failed to place limit " \o position \o " order for " \o symbol
        ELSE IF m = "close_position"
        THEN (IF success THEN "Closed " ELSE "Failed to close ")
                 \o position \o " position for " \o symbol
        ELSE (IF success THEN "Cancelled" ELSE "Failed to cancel")
                 \o type \o " orders for " \o symbol

\* the status that _log_and_notify puts before the sentence
Status(success) == IF success THEN "SUCCESS: " ELSE "ERROR: "

---------------------------------------------------------------------------
(* C11: the text of the success report of a place_limit_order call that    *)
(* supplies symbol, position type and price is the sentence "Placed limit  *)
(* <position type> order for <symbol> at <price>" of the supplied values;  *)
(* with symbol BTCUSDT, position type long, price 65000 and nothing else   *)
(* supplied it is "Placed limit long order for BTCUSDT at 65000".          *)
C11_LimitOrderSentence ==
    (/\ name = "place_limit_order"
     /\ WellFormed(name, args, kwargs)
     /\ {"symbol", "position", "price"} \subseteq DOMAIN Supplied) =>
        \A i \in Written("success", "info") :
            /\ trace[i].text = Status(TRUE) \o Sentence(name, TRUE, Supplied)
            /\ Supplied = [symbol |-> "BTCUSDT", position |-> "long", price |-> "65000"]
                   => trace[i].text =
                          "SUCCESS: Placed limit long order for BTCUSDT at 65000"

---------------------------------------------------------------------------
(* C12: when cancel_order is called with symbol ETHUSDT and no type, the   *)
(* underlying call raises the error "timeout" and the sinks work, one      *)
(* error report is written, its text is "Failed to cancel orders for       *)
(* ETHUSDT", its error detail is "timeout", and the caller gets that same  *)
(* error.                                                                  *)
C12_CancelFailureReport ==
    (/\ name = "cancel_order"
     /\ WellFormed(name, args, kwargs)
     /\ Supplied = [symbol |-> "ETHUSDT"]
     /\ outcome = Raises(Exc("RuntimeError", "timeout", TRUE, TRUE))
     /\ SinksWork
     /\ Done) =>
        /\ Cardinality(Written("failure", "error")) = 1
        /\ \A i \in Written("failure", "error") :
            /\ trace[i].text = "ERROR: Failed to cancel orders for ETHUSDT"
            /\ trace[i].error = <<"timeout">>
        /\ visible = outcome

---------------------------------------------------------------------------
(* C13: a call of a trading method goes through the stages entered,        *)
(* extracted, invoked, reported, returned or raised in this order and      *)
(* never back.  The underlying method is invoked at most once, after the   *)
(* extraction, with the positional and keyword arguments of the caller,    *)
(* which no step changes.  Nothing reaches the Log Sink or the             *)
(* Notification Sink before the invocation has returned or raised.  Every  *)
(* send on the Notification Sink comes right after the accepted Log Sink   *)
(* write of the same report.  No sink is used once the caller has its      *)
(* value or its exception.                                                 *)

\* the place of a control point in the order of the wrapper
Stage(p) ==
    IF p = "ready" THEN 0
    ELSE IF p = "Entered" THEN 1
    ELSE IF p = "Extracted" THEN 2
    ELSE IF p = "Invoked" THEN 3
    ELSE IF p = "Caught" THEN 4
    ELSE IF p \in {"ReportedSuccess", "ReportedFailure"} THEN 5
    ELSE 6

C13_CallOrder ==
    /\ [](Audited =>
            /\ Stage(pc) <= 2 => received = <<>> /\ trace = <<>>
            /\ Stage(pc) >= 3 => received = <<[args |-> args, kwargs |-> kwargs]>>
            /\ Stage(pc) = 5 => Reports("info") \cup Reports("error") # {}
            /\ \A i \in Sends :
                /\ i > 1
                /\ trace[i - 1].sink = "log"
                /\ trace[i - 1].raised = NoExc
                /\ trace[i - 1].kind = trace[i].kind
                /\ trace[i - 1].text = trace[i].text)
    /\ [][Audited =>
            /\ Stage(pc') > Stage(pc)
            /\ args' = args /\ kwargs' = kwargs
            /\ received' # received => pc = "Extracted"
            /\ trace' # trace => pc \in {"Invoked", "Caught"}]_vars

C13_Witness ==
    /\ Audited /\ tgbot /\ pc = "Returned"
    /\ Len(received) = 1
    /\ Len(trace) = 2 /\ trace[1].sink = "log" /\ trace[2].sink = "tg"
    /\ visible = outcome

---------------------------------------------------------------------------
(* C14: when a trading method is called with positional arguments only,    *)
(* every field the call supplies is extracted with the value the           *)
(* underlying method receives for it, and the sentence of every report of  *)
(* the call is the sentence of those values.                               *)
C14_PositionalFieldsAsReceived ==
    (/\ Audited
     /\ kwargs = EmptyDict
     /\ WellFormed(name, args, kwargs)
     /\ Stage(pc) >= 2) =>
        /\ \A f \in DOMAIN Supplied : f \in DOMAIN details /\ details[f] = Supplied[f]
        /\ \A i \in DOMAIN trace :
            trace[i].kind \in {"success", "failure"} =>
                trace[i].text = Status(trace[i].kind = "success")
                                    \o Sentence(name, trace[i].kind = "success", Supplied)

---------------------------------------------------------------------------
(* C15: in every report of a call of a trading method, the sentence is the *)
(* sentence of the field values the details of that report hold, a field   *)
(* being held under its own name or under the keyword it was passed by.    *)

\* the fields a details mapping holds, by their own names
Stored(d) ==
    [f \in {x \in CanonicalKeys : x \in DOMAIN d \/ KeywordOf(x) \in DOMAIN d} |->
        IF f \in DOMAIN d THEN d[f] ELSE d[KeywordOf(f)]]

C15_SentenceAgreesWithDetails ==
    Audited =>
        \A i \in DOMAIN trace :
            trace[i].kind \in {"success", "failure"} =>
                trace[i].text = Status(trace[i].kind = "success")
                                    \o Sentence(name, trace[i].kind = "success",
                                                Stored(trace[i].details))

====
